---- MODULE Spec2Model ----
(***************************************************************************)
(* A model of the compiler front end of c-comp-rs: the Lexer of            *)
(* src/main.rs (tokenise and the scanners it calls) and the parser of      *)
(* src/parser.rs (the expressions equality .. primary, and parse).         *)
(*                                                                         *)
(* Text is a sequence of one-character strings, so that slices, lookahead  *)
(* and keyword lookup are computed the way the code computes them.  Only   *)
(* ASCII input is drawn, so a byte offset is a character offset            *)
(* (len_utf8 = 1).  Offsets are zero-based as in the code; Slice converts. *)
(***************************************************************************)
EXTENDS Integers, Sequences, FiniteSets, TLC

VARIABLES
    source,       \* Lexer.source
    tokens,       \* Lexer.tokens
    start_byte,   \* Lexer.start_byte
    curr_byte,    \* Lexer.curr_byte (also the position of Lexer.chars)
    line,         \* Lexer.line
    col,          \* Lexer.col
    errors,       \* the local `errors` of tokenise
    pc,           \* where tokenise is: "scan", "done", "panicked" ("idle": no lexer)
    result,       \* what tokenise returned: "none", "Ok", "Err", "Panic"
    parser_tokens,\* the slice handed to Parser::new
    parsed        \* what Parser::expression returned, or NotRun

vars == <<source, tokens, start_byte, curr_byte, line, col, errors, pc, result,
          parser_tokens, parsed>>

lexer_vars == <<source, tokens, start_byte, curr_byte, line, col, errors, pc, result>>

parser_vars == <<parser_tokens, parsed>>

-----------------------------------------------------------------------------
(* Bounds of the checked inputs.                                           *)

\* The source text is a concatenation of at most MaxFrags fragments.
MaxFrags == 3

-----------------------------------------------------------------------------
(* Characters.                                                             *)

\* Option<char>::None, and the '\0' that peek returns at end of input.
None == "None"
NUL == "NUL"

Quote == "\""
Backslash == "\\"
Apostrophe == "'"
Newline == "\n"

LowerCase == {"a","b","c","d","e","f","g","h","i","j","k","l","m",
              "n","o","p","q","r","s","t","u","v","w","x","y","z"}

UpperCase == {"A","B","C","D","E","F","G","H","I","J","K","L","M",
              "N","O","P","Q","R","S","T","U","V","W","X","Y","Z"}

Digits == {"0","1","2","3","4","5","6","7","8","9"}

is_alpha(c) == c \in LowerCase \/ c \in UpperCase \/ c = "_"

is_digit(c) == c \in Digits

is_alphanumeric(c) == is_alpha(c) \/ is_digit(c)

\* The keyword table built by Lexer::default.
keywords ==
    (<<"r","e","t","u","r","n">> :> "Return") @@
    (<<"i","f">> :> "If") @@
    (<<"e","l","s","e">> :> "Else") @@
    (<<"s","t","r","u","c","t">> :> "Struct") @@
    (<<"v","o","i","d">> :> "Void") @@
    (<<"i","n","t">> :> "Int") @@
    (<<"f","l","o","a","t">> :> "Float") @@
    (<<"c","h","a","r">> :> "Char")

-----------------------------------------------------------------------------
(* The Lexer's helpers.  `s` is the mutable part of `self`:                *)
(* [tokens, start_byte, curr_byte, line, col].                             *)

\* &self.source[a..b]
Slice(a, b) == SubSeq(source, a + 1, b)

NoErr == [kind |-> "None"]

eof(s) == s.curr_byte >= Len(source)

at(pos) == IF pos < Len(source) THEN source[pos + 1] ELSE None

advance(s) ==
    IF s.curr_byte < Len(source)
    THEN [s EXCEPT !.curr_byte = @ + 1, !.col = @ + 1]
    ELSE s

peek(s) == IF eof(s) THEN NUL ELSE at(s.curr_byte)

peek_after(s) == IF eof(s) THEN NUL ELSE at(s.curr_byte + 1)

add_token(s, token_type, literal) ==
    [s EXCEPT !.tokens = Append(@, [token_type |-> token_type,
                                    lexeme |-> Slice(s.start_byte, s.curr_byte),
                                    literal |-> literal,
                                    line |-> s.line])]

\* Returns the new self and whether the character matched.
matches(s, expected) ==
    IF ~eof(s) /\ at(s.curr_byte) = expected
    THEN [self |-> advance(s), hit |-> TRUE]
    ELSE [self |-> s, hit |-> FALSE]

\* A lookahead that tests the next character without consuming it.
conditional_token_unconsumed(s, token, match_token, original_token) ==
    [self |-> s,
     token_type |-> IF matches(s, token).hit THEN match_token ELSE original_token]

conditional_token(s, token, match_token, original_token) ==
    LET m == matches(s, token)
    IN  [self |-> m.self,
         token_type |-> IF m.hit THEN match_token ELSE original_token]

\* while self.peek() != Some('\n') && !self.eof() { self.advance(); }
RECURSIVE skip_comment(_)
skip_comment(s) ==
    IF peek(s) # Newline /\ ~eof(s) THEN skip_comment(advance(s)) ELSE s

\* A comment skipped without the `else`: the Slash token is added as well.
parse_slash_always_token(s) ==
    LET m == matches(s, "/")
    IN  add_token(IF m.hit THEN skip_comment(m.self) ELSE s, "Slash", <<>>)

parse_slash(s) ==
    LET m == matches(s, "/")
    IN  IF m.hit THEN skip_comment(m.self)
        ELSE add_token(s, "Slash", <<>>)

\* The while loop of consume_string.
RECURSIVE string_body(_)
string_body(s) ==
    IF peek(s) # Quote /\ ~eof(s)
    THEN string_body(advance(IF peek(s) = Newline
                             THEN [s EXCEPT !.line = @ + 1]
                             ELSE s))
    ELSE s

consume_string(s) ==
    LET b == string_body(s)
    IN  IF eof(b)
        THEN [self |-> b,
              err |-> [kind |-> "UnterminatedString", line |-> b.line, col |-> b.col]]
        ELSE LET c == advance(b)
             IN  [self |-> add_token(c, "Constant",
                                     Slice(c.start_byte + 1, c.curr_byte - 1)),
                  err |-> NoErr]

RECURSIVE identifier_run(_)
identifier_run(s) ==
    IF is_alphanumeric(peek(s)) THEN identifier_run(advance(s)) ELSE s

consume_identifier(s) ==
    LET r == identifier_run(s)
        text == Slice(r.start_byte, r.curr_byte)
    IN  IF text \in DOMAIN keywords
        THEN add_token(r, keywords[text], text)
        ELSE add_token(r, "Identifier", text)

RECURSIVE integer_run(_)
integer_run(s) ==
    IF is_digit(peek(s)) /\ ~eof(s) THEN integer_run(advance(s)) ELSE s

RECURSIVE fraction_run(_)
fraction_run(s) ==
    IF is_digit(peek(s)) THEN fraction_run(advance(s)) ELSE s

\* A number scanner that takes the first digit only.
consume_number_first_digit(s) ==
    add_token(s, "Constant", Slice(s.start_byte, s.curr_byte))

consume_number(s) ==
    LET i == integer_run(s)
        r == IF peek(i) = "." /\ is_digit(peek_after(i))
             THEN fraction_run(advance(i))
             ELSE i
    IN  add_token(r, "Constant", Slice(r.start_byte, r.curr_byte))

Returned(s) == [self |-> s, err |-> NoErr, panic |-> FALSE]

Conditional(s, match_token, original_token) ==
    LET t == conditional_token(s, "=", match_token, original_token)
    IN  Returned(add_token(t.self, t.token_type, <<>>))

\* scan_token: the character read by the leading advance, then the match.
scan_token(s0) ==
    LET c == at(s0.curr_byte)
        s == advance(s0)
    IN  CASE c = "(" -> Returned(add_token(s, "LParen", <<>>))
          [] c = ")" -> Returned(add_token(s, "RParen", <<>>))
          [] c = "{" -> Returned(add_token(s, "LBrace", <<>>))
          [] c = "}" -> Returned(add_token(s, "RBrace", <<>>))
          [] c = "," -> Returned(add_token(s, "Comma", <<>>))
          [] c = ";" -> Returned(add_token(s, "Semicolon", <<>>))
          [] c = "*" -> Returned(add_token(s, "Star", <<>>))
          [] c = "!" -> Conditional(s, "BangEqual", "Bang")
          [] c = "=" -> Conditional(s, "EqualEqual", "Equal")
          [] c = ">" -> Conditional(s, "GreaterEqual", "Greater")
          [] c = "<" -> Conditional(s, "LessEqual", "Less")
          [] c = "/" -> Returned(parse_slash(s))
          [] c = Newline -> Returned([s EXCEPT !.line = @ + 1, !.col = 0])
          [] c = Quote -> LET r == consume_string(s)
                          IN  [self |-> r.self, err |-> r.err, panic |-> FALSE]
          \* consume_char is todo!(): the thread panics
          [] c = Apostrophe -> [self |-> s, err |-> NoErr, panic |-> TRUE]
          [] c \in {" ", "\r", "\t"} -> Returned(s)
          [] OTHER ->
                IF is_digit(c) THEN Returned(consume_number(s))
                ELSE IF is_alpha(c) THEN Returned(consume_identifier(s))
                ELSE [self |-> s,
                      err |-> [kind |-> "UnexpectedChar", line |-> s.line,
                               col |-> s.col, char |-> c],
                      panic |-> FALSE]

-----------------------------------------------------------------------------
(* The inputs of the Lexer.                                                *)

Fragments ==
    { <<"(">>, <<";">>, <<"*">>, <<"-">>, <<"+">>,
      <<"!">>, <<"=">>, <<">">>, <<"<">>, <<"/">>,
      <<Newline>>, <<" ">>, <<"\t">>, <<"\r">>,
      <<Quote>>, <<Backslash>>, <<Apostrophe>>,
      <<"1">>, <<".">>, <<"x">>, <<"i","f">>, <<"t","r","u","e">>, <<"@">> }

RECURSIVE Concat(_)
Concat(fs) == IF fs = <<>> THEN <<>> ELSE Head(fs) \o Concat(Tail(fs))

\* The source of the test lex_tokenizes_simple_return_statement.
SimpleReturn == <<"r","e","t","u","r","n"," ","4","2",";">>

Sources ==
    { Concat(fs) : fs \in UNION { [1..n -> Fragments] : n \in 0..MaxFrags } }
        \cup {SimpleReturn}

-----------------------------------------------------------------------------
(* The Lexer: from_string, then tokenise.                                  *)

ParserIdle == parser_tokens = <<>> /\ parsed = [status |-> "NotRun"]

\* Lexer::from_string over Lexer::default
from_string ==
    /\ source \in Sources
    /\ tokens = <<>>
    /\ start_byte = 0
    /\ curr_byte = 0
    /\ line = 1
    /\ col = 1
    /\ errors = <<>>
    /\ pc = "scan"
    /\ result = "none"
    /\ ParserIdle

self == [tokens |-> tokens, start_byte |-> start_byte, curr_byte |-> curr_byte,
         line |-> line, col |-> col]

\* One iteration of the scan loop of tokenise.
ScanToken ==
    /\ pc = "scan"
    /\ ~eof(self)
    /\ LET r == scan_token([self EXCEPT !.start_byte = curr_byte])
       IN  /\ tokens' = r.self.tokens
           /\ start_byte' = r.self.start_byte
           /\ curr_byte' = r.self.curr_byte
           /\ line' = r.self.line
           /\ col' = r.self.col
           /\ errors' = IF r.err # NoErr THEN Append(errors, r.err) ELSE errors
           /\ pc' = IF r.panic THEN "panicked" ELSE "scan"
           /\ result' = IF r.panic THEN "Panic" ELSE result
    /\ UNCHANGED <<source, parser_vars>>

\* The end of tokenise: the EOF token and the returned value.
Finish ==
    /\ pc = "scan"
    /\ eof(self)
    /\ tokens' = Append(tokens, [token_type |-> "EOF", lexeme |-> <<>>,
                                 literal |-> <<>>, line |-> line])
    /\ result' = IF errors = <<>> THEN "Ok" ELSE "Err"
    /\ pc' = "done"
    /\ UNCHANGED <<source, start_byte, curr_byte, line, col, errors, parser_vars>>

tokenise == ScanToken \/ Finish

LexSpec == from_string /\ [][tokenise]_vars

-----------------------------------------------------------------------------
(* The Parser.  `p` is the mutable state of the parser:                    *)
(* [pos, previous], where pos tokens of parser_tokens have been taken from *)
(* the Peekable iterator and previous is the index of the token last       *)
(* taken (0 for Option::None).  A reference to a token is its index.       *)
(* Every function returns [ok, self, ...]: the value or the ParserError,   *)
(* and the state it leaves.                                                *)

NoToken == [token_type |-> "None"]

Literal(value) == [node |-> "Literal", value |-> value]

Grouping(expr) == [node |-> "Grouping", expr |-> expr]

Unary(operator, right) == [node |-> "Unary", operator |-> operator, right |-> right]

Binary(left, operator, right) ==
    [node |-> "Binary", left |-> left, operator |-> operator, right |-> right]

Ok(p, expr) == [ok |-> TRUE, self |-> p, expr |-> expr]

Err(p, error) == [ok |-> FALSE, self |-> p, err |-> error]

parser_peek(p) ==
    IF p.pos < Len(parser_tokens) THEN parser_tokens[p.pos + 1] ELSE NoToken

previous(p) ==
    IF p.previous = 0
    THEN [ok |-> FALSE, self |-> p, err |-> [kind |-> "NoPreviousToken"]]
    ELSE [ok |-> TRUE, self |-> p, token |-> p.previous]

\* An advance that takes the token and does not record it as previous.
parser_advance_unrecorded(p) ==
    IF p.pos < Len(parser_tokens)
    THEN [ok |-> TRUE,
          self |-> [pos |-> p.pos + 1, previous |-> p.previous],
          token |-> p.pos + 1]
    ELSE [ok |-> FALSE, self |-> p, err |-> [kind |-> "UnexpectedEOF"]]

parser_advance(p) ==
    IF p.pos < Len(parser_tokens)
    THEN [ok |-> TRUE,
          self |-> [pos |-> p.pos + 1, previous |-> p.pos + 1],
          token |-> p.pos + 1]
    ELSE [ok |-> FALSE, self |-> p, err |-> [kind |-> "UnexpectedEOF"]]

\* Returns the state left and whether a token was consumed.
parser_matches(p, types) ==
    IF parser_peek(p) # NoToken /\ parser_peek(p).token_type \in types
    THEN [self |-> parser_advance(p).self, hit |-> TRUE]
    ELSE [self |-> p, hit |-> FALSE]

check(p, token_type) ==
    parser_peek(p) # NoToken /\ parser_peek(p).token_type = token_type

parser_eof(p) == check(p, "EOF")

consume(p, expected, message) ==
    IF check(p, expected) THEN parser_advance(p)
    ELSE Err(p, [kind |-> "ExpectedToken",
                 expected |-> expected,
                 found |-> parser_peek(p).token_type,
                 message |-> message])

\* The `?` operator: an Err result is returned as it is.  The arguments of
\* the *_fold operators are the results of the calls in the order the code
\* makes them; a later call is made only if the earlier ones returned Ok.

RECURSIVE expression(_), equality(_), equality_loop(_), equality_fold(_, _, _),
          comparison(_), comparison_loop(_), comparison_fold(_, _, _),
          term(_), term_loop(_), term_fold(_, _, _),
          factor(_), factor_loop(_), factor_fold(_, _, _),
          unary(_), unary_fold(_, _), primary(_), primary_group(_)

expression(p) == equality(p)

\* primary after `let expr = self.expression()?`: the Result of consume is
\* dropped, the token it may have taken stays taken.
primary_group(e) ==
    IF ~e.ok THEN e
    ELSE Ok(consume(e.self, "RParen", "Expect ')' after expression").self,
            Grouping(e.expr))

primary(p) ==
    LET token == parser_peek(p)
        a == parser_advance(p)
    IN  IF token # NoToken
        THEN CASE token.token_type \in {"False", "True", "Constant"} ->
                    IF a.ok THEN Ok(a.self, Literal(parser_tokens[a.token].literal))
                    ELSE a
               [] token.token_type \in {"LParen", "LBrace"} ->
                    primary_group(expression(a.self))
               [] OTHER ->
                    Err(p, [kind |-> "UnknownPrimaryToken",
                            line |-> token.line,
                            token_type |-> token.token_type])
        ELSE Err(p, [kind |-> "UnknownError"])

\* unary after a prefix operator was matched: op = self.previous()?,
\* right = self.unary()?.
unary_fold(op, right) ==
    IF ~op.ok THEN op
    ELSE IF ~right.ok THEN right
    ELSE Ok(right.self, Unary(op.token, right.expr))

unary(p) ==
    LET m == parser_matches(p, {"Bang", "Minus"})
    IN  IF m.hit THEN unary_fold(previous(m.self), unary(m.self))
        ELSE primary(p)

\* One turn of a binary level's while loop after its operator was matched:
\* op = self.previous()?, right = the operand, and the loop again.
factor_fold(expr, op, right) ==
    IF ~op.ok THEN op
    ELSE IF ~right.ok THEN right
    ELSE factor_loop(Ok(right.self, Binary(expr, op.token, right.expr)))

\* The while loop of factor; `left` is the result parsed so far.
factor_loop(left) ==
    LET m == parser_matches(left.self, {"Slash", "Star"})
    IN  IF ~left.ok \/ ~m.hit THEN left
        ELSE factor_fold(left.expr, previous(m.self), unary(m.self))

factor(p) == factor_loop(unary(p))

term_fold(expr, op, right) ==
    IF ~op.ok THEN op
    ELSE IF ~right.ok THEN right
    ELSE term_loop(Ok(right.self, Binary(expr, op.token, right.expr)))

\* The while loop of term.
term_loop(left) ==
    LET m == parser_matches(left.self, {"Minus", "Plus"})
    IN  IF ~left.ok \/ ~m.hit THEN left
        ELSE term_fold(left.expr, previous(m.self), factor(m.self))

term(p) == term_loop(factor(p))

comparison_fold(expr, operator, right) ==
    IF ~operator.ok THEN operator
    ELSE IF ~right.ok THEN right
    ELSE comparison_loop(Ok(right.self, Binary(expr, operator.token, right.expr)))

\* The while loop of comparison.
comparison_loop(left) ==
    LET m == parser_matches(left.self, {"Greater", "GreaterEqual", "Less", "LessEqual"})
    IN  IF ~left.ok \/ ~m.hit THEN left
        ELSE comparison_fold(left.expr, previous(m.self), term(m.self))

comparison(p) == comparison_loop(term(p))

equality_fold(expr, operator, right) ==
    IF ~operator.ok THEN operator
    ELSE IF ~right.ok THEN right
    ELSE equality_loop(Ok(right.self, Binary(expr, operator.token, right.expr)))

\* The while loop of equality.
equality_loop(left) ==
    LET m == parser_matches(left.self, {"BangEqual", "EqualEqual"})
    IN  IF ~left.ok \/ ~m.hit THEN left
        ELSE equality_fold(left.expr, previous(m.self), comparison(m.self))

equality(p) == equality_loop(comparison(p))

-----------------------------------------------------------------------------
(* The inputs of the Parser: token slices that end with the EOF token the  *)
(* Lexer appends.  The token at index i stands on line i and, when it      *)
(* carries text, its literal names it.                                     *)

\* Long sequences hold at most MaxTokens tokens of CoreKinds before EOF.
MaxTokens == 5

\* Short sequences hold at most MaxShort tokens of any kind before EOF.
MaxShort == 2

\* TokenType, as the parser imports it.
TokenKinds ==
    {"Identifier", "Constant", "LParen", "RParen", "LBrace", "RBrace", "Comma",
     "Star", "Semicolon", "Return", "If", "Else", "Int", "Float", "Char", "Struct",
     "Void", "True", "False", "Bang", "BangEqual", "EqualEqual", "GreaterEqual",
     "Greater", "LessEqual", "Less", "Equal", "Slash", "Minus", "Plus", "EOF"}

CoreKinds ==
    {"Constant", "Identifier", "Plus", "Minus", "Star", "EqualEqual", "Less",
     "LParen", "RParen"}

KeywordKinds == { keywords[t] : t \in DOMAIN keywords }

DigitAt(i) == <<"1", "2", "3", "4", "5", "6", "7", "8", "9">>[i]

LiteralOf(kind, i) ==
    CASE kind = "Constant" -> <<DigitAt(i)>>
      [] kind = "Identifier" -> <<"x", DigitAt(i)>>
      [] kind = "True" -> <<"t", "r", "u", "e">>
      [] kind = "False" -> <<"f", "a", "l", "s", "e">>
      [] kind \in KeywordKinds -> CHOOSE t \in DOMAIN keywords : keywords[t] = kind
      [] OTHER -> <<>>

TokenStream(kinds) ==
    [i \in 1..(Len(kinds) + 1) |->
        IF i <= Len(kinds)
        THEN [token_type |-> kinds[i], literal |-> LiteralOf(kinds[i], i), line |-> i]
        ELSE [token_type |-> "EOF", literal |-> <<>>, line |-> i]]

ParserInputs ==
    UNION ({ [1..n -> CoreKinds] : n \in 0..MaxTokens }
           \cup { [1..n -> TokenKinds] : n \in 0..MaxShort })

LexerIdle ==
    /\ source = <<>> /\ tokens = <<>> /\ start_byte = 0 /\ curr_byte = 0
    /\ line = 1 /\ col = 1 /\ errors = <<>> /\ pc = "idle" /\ result = "none"

\* Parser::new
new ==
    /\ \E kinds \in ParserInputs : parser_tokens = TokenStream(kinds)
    /\ parsed = [status |-> "NotRun"]
    /\ LexerIdle

\* A call of Parser::expression on the fresh parser.
ParseExpression ==
    /\ parsed = [status |-> "NotRun"]
    /\ parser_tokens # <<>>
    /\ LET r == expression([pos |-> 0, previous |-> 0])
       IN  parsed' = [status |-> "Returned", value |-> r]
    /\ UNCHANGED <<parser_tokens, lexer_vars>>

ParseSpec == new /\ [][ParseExpression]_vars

-----------------------------------------------------------------------------
(* The statement layer.  Parser::parse is the loop of the source; the body *)
(* of Parser::declaration is not in the source, and is the dispatch of the *)
(* specification (4.2): Return parses a Return statement, optionally with  *)
(* an expression before the terminating Semicolon, and what is no          *)
(* declaration is an Expression statement terminated by Semicolon.  The    *)
(* productions that begin with a type keyword are not described beyond     *)
(* their node and are not modelled; no source drawn spells a type keyword. *)

\* Option<Expr>::None
NoExpr == [node |-> "None"]

Expression(expr) == [node |-> "Expression", expr |-> expr]

Return(keyword, value) == [node |-> "Return", keyword |-> keyword, value |-> value]

OkStatement(p, statement) == [ok |-> TRUE, self |-> p, statement |-> statement]

\* After the expression of a statement: the Semicolon is required.
terminated(e, statement) ==
    LET c == consume(e.self, "Semicolon", "Expect ';' after statement")
    IN  IF ~e.ok THEN e
        ELSE IF ~c.ok THEN c
        ELSE OkStatement(c.self, statement)

return_statement(p) ==
    LET keyword == parser_advance(p)
    IN  IF check(keyword.self, "Semicolon")
        THEN OkStatement(parser_advance(keyword.self).self, Return(keyword.token, NoExpr))
        ELSE LET value == expression(keyword.self)
             IN  terminated(value, Return(keyword.token, IF value.ok THEN value.expr ELSE NoExpr))

expression_statement(p) ==
    LET expr == expression(p)
    IN  terminated(expr, Expression(IF expr.ok THEN expr.expr ELSE NoExpr))

declaration(p) ==
    IF check(p, "Return") THEN return_statement(p) ELSE expression_statement(p)

RECURSIVE parse_loop(_, _), parse_fold(_, _)

\* statements.push(self.declaration()?)
parse_fold(statements, d) ==
    IF ~d.ok THEN d
    ELSE parse_loop(d.self, Append(statements, d.statement))

\* while !self.eof() { .. } Ok(statements)
parse_loop(p, statements) ==
    IF parser_eof(p) THEN [ok |-> TRUE, self |-> p, statements |-> statements]
    ELSE parse_fold(statements, declaration(p))

parse(p) == parse_loop(p, <<>>)

-----------------------------------------------------------------------------
(* The front end: the token sequence tokenise returned is handed to a      *)
(* Parser, and parse is called on it.                                      *)

\* Parser::new on the tokens of a successful tokenise.
NewParser ==
    /\ pc = "done" /\ result = "Ok"
    /\ parser_tokens = <<>>
    /\ parser_tokens' = tokens
    /\ UNCHANGED <<lexer_vars, parsed>>

\* A call of Parser::parse on the fresh parser.
Parse ==
    /\ parser_tokens # <<>>
    /\ parsed = [status |-> "NotRun"]
    /\ parsed' = [status |-> "Returned", value |-> parse([pos |-> 0, previous |-> 0])]
    /\ UNCHANGED <<parser_tokens, lexer_vars>>

FrontEndSpec == from_string /\ [][tokenise \/ NewParser \/ Parse]_vars

-----------------------------------------------------------------------------
(* The token taxonomy and scanner classes the lexer is specified against.  *)

\* The nine one-character spellings and their kinds.
SingleCharKind ==
    ("(" :> "LParen") @@ (")" :> "RParen") @@ ("{" :> "LBrace") @@
    ("}" :> "RBrace") @@ ("," :> "Comma") @@ (";" :> "Semicolon") @@
    ("*" :> "Star") @@ ("-" :> "Minus") @@ ("+" :> "Plus")

OneCharKind == ("!" :> "Bang") @@ ("=" :> "Equal") @@ (">" :> "Greater") @@ ("<" :> "Less")

TwoCharKind ==
    ("!" :> "BangEqual") @@ ("=" :> "EqualEqual") @@
    (">" :> "GreaterEqual") @@ ("<" :> "LessEqual")

\* The ten reserved words.
ReservedWords ==
    keywords @@ (<<"t","r","u","e">> :> "True") @@ (<<"f","a","l","s","e">> :> "False")

\* A character no scanner rule accepts.
Unexpected(c) ==
    ~ \/ c \in DOMAIN SingleCharKind
      \/ c \in DOMAIN OneCharKind
      \/ c \in {"/", Newline, " ", "\t", "\r", Quote}
      \/ is_digit(c)
      \/ is_alpha(c)

Occurrences(c) == { i \in 1..Len(source) : source[i] = c }

UnexpectedPositions == { i \in 1..Len(source) : Unexpected(source[i]) }

\* tokenise is about to scan the character at curr_byte.
Scanning == pc = "scan" /\ curr_byte < Len(source)

Ended == pc \in {"done", "panicked"}

TokenTypes == [i \in 1..Len(tokens) |-> tokens[i].token_type]

-----------------------------------------------------------------------------
(* The expression grammar the parser is specified against.                 *)

ExpressionReturned == parsed.status = "Returned"

\* The kinds of the tokens before the closing EOF.
Body == [i \in 1..(Len(parser_tokens) - 1) |-> parser_tokens[i].token_type]

LiteralKinds == {"True", "False", "Constant"}

PrefixOps == {"Bang", "Minus"}

\* The binary levels, lowest first: equality, comparison, term, factor.
Level(kind) ==
    CASE kind \in {"BangEqual", "EqualEqual"} -> 1
      [] kind \in {"Greater", "GreaterEqual", "Less", "LessEqual"} -> 2
      [] kind \in {"Minus", "Plus"} -> 3
      [] kind \in {"Slash", "Star"} -> 4
      [] OTHER -> 0

BinaryOps == { k \in TokenKinds : Level(k) > 0 }

\* A well-formed operator expression: operands (a token of `operands`, or a
\* parenthesised expression), each under any number of prefix operators,
\* joined by binary operators.  The index after the operand or expression
\* that starts at i; 0 if there is none.
RECURSIVE WfOperand(_, _, _), WfExpr(_, _, _)
WfOperand(ks, i, operands) ==
    IF i > Len(ks) THEN 0
    ELSE IF ks[i] \in PrefixOps THEN WfOperand(ks, i + 1, operands)
    ELSE IF ks[i] \in operands THEN i + 1
    ELSE IF ks[i] = "LParen"
         THEN LET j == WfExpr(ks, i + 1, operands)
              IN  IF j # 0 /\ j <= Len(ks) /\ ks[j] = "RParen" THEN j + 1 ELSE 0
    ELSE 0

WfExpr(ks, i, operands) ==
    LET j == WfOperand(ks, i, operands)
    IN  IF j = 0 THEN 0
        ELSE IF j <= Len(ks) /\ ks[j] \in BinaryOps THEN WfExpr(ks, j + 1, operands)
        ELSE j

WellFormed(operands) == WfExpr(Body, 1, operands) = Len(Body) + 1

OperatorOf(e) == parser_tokens[e.operator].token_type

\* The tree of the layered grammar: under a binary operator of level L the
\* left child is no binary node of a lower level and the right child no
\* binary node of the same or a lower level; a prefix operator has no
\* binary node as its operand.
RECURSIVE Layered(_)
Layered(e) ==
    CASE e.node = "Binary" ->
            /\ Level(OperatorOf(e)) > 0
            /\ e.left.node = "Binary" => Level(OperatorOf(e.left)) >= Level(OperatorOf(e))
            /\ e.right.node = "Binary" => Level(OperatorOf(e.right)) > Level(OperatorOf(e))
            /\ Layered(e.left) /\ Layered(e.right)
      [] e.node = "Unary" ->
            /\ OperatorOf(e) \in PrefixOps
            /\ e.right.node # "Binary"
            /\ Layered(e.right)
      [] e.node = "Grouping" -> Layered(e.expr)
      [] OTHER -> TRUE

Leaf(text) == [kind |-> "Operand", text |-> text, index |-> 0]

\* The tokens of a tree, left to right.
RECURSIVE Yield(_)
Yield(e) ==
    CASE e.node = "Binary" ->
            Yield(e.left) \o <<[kind |-> OperatorOf(e), text |-> <<>>, index |-> e.operator]>>
                          \o Yield(e.right)
      [] e.node = "Unary" ->
            <<[kind |-> OperatorOf(e), text |-> <<>>, index |-> e.operator]>> \o Yield(e.right)
      [] e.node = "Grouping" ->
            <<[kind |-> "LParen", text |-> <<>>, index |-> 0]>> \o Yield(e.expr)
                \o <<[kind |-> "RParen", text |-> <<>>, index |-> 0]>>
      [] e.node = "Literal" -> <<Leaf(e.value)>>
      [] e.node = "Identifier" -> <<Leaf(parser_tokens[e.token].literal)>>

\* The same view of the token sequence before EOF.
InputYield ==
    [i \in 1..Len(Body) |->
        IF Body[i] \in LiteralKinds \cup {"Identifier"}
        THEN Leaf(parser_tokens[i].literal)
        ELSE [kind |-> Body[i], text |-> <<>>,
              index |-> IF Body[i] \in {"LParen", "RParen"} THEN 0 ELSE i]]

\* Some token is a binary operator (Minus, which is also a prefix, aside).
HasBinaryOperator == \E i \in 1..Len(Body) : Body[i] \in BinaryOps \ PrefixOps

\* The parser returned the layered, left-associative tree of its input.
ParsedLayered ==
    /\ parsed.value.ok
    /\ parsed.value.self.pos = Len(Body)
    /\ Layered(parsed.value.expr)
    /\ Yield(parsed.value.expr) = InputYield

(* C1: for every token sequence that forms a well-formed operator          *)
(* expression and ends with EOF, the parser returns the tree of the        *)
(* layered grammar, every binary level left-associative; "1 + 2 * 3" is    *)
(* a Plus node whose right child is the Star node and "1 - 2 - 3" nests    *)
(* to the left.                                                            *)
C1_LayeredLeftAssociative ==
    (ExpressionReturned /\ HasBinaryOperator /\ WellFormed(LiteralKinds \cup {"Identifier"}))
    => ParsedLayered

\* The same for expressions whose operands are literal tokens only.
LiteralExpressionsLayered ==
    (ExpressionReturned /\ WellFormed(LiteralKinds)) => ParsedLayered

\* "1 + 2 * 3" and "1 - 2 - 3".
PrecedenceExample ==
    (ExpressionReturned /\ Body = <<"Constant", "Plus", "Constant", "Star", "Constant">>)
    => parsed.value.expr =
          Binary(Literal(<<"1">>), 2, Binary(Literal(<<"3">>), 4, Literal(<<"5">>)))

AssociativityExample ==
    (ExpressionReturned /\ Body = <<"Constant", "Minus", "Constant", "Minus", "Constant">>)
    => parsed.value.expr =
          Binary(Binary(Literal(<<"1">>), 2, Literal(<<"3">>)), 4, Literal(<<"5">>))

Fresh == [pos |-> 0, previous |-> 0]

(* C2: when an LParen has been consumed, the inner expression parsed and   *)
(* the next token is not RParen, parsing fails with ExpectedToken          *)
(* { expected: RParen } and no Grouping node is returned.                  *)
C2_UnclosedGroupingFails ==
    (/\ ExpressionReturned
     /\ Body # <<>> /\ Body[1] = "LParen"
     /\ LET inner == expression([pos |-> 1, previous |-> 1])
        IN  inner.ok /\ ~check(inner.self, "RParen"))
    => /\ ~parsed.value.ok
       /\ parsed.value.err.kind = "ExpectedToken"
       /\ parsed.value.err.expected = "RParen"

(* C3: primary dispatches on the kind of the lookahead token: True, False  *)
(* and Constant become a Literal node, Identifier an Identifier node,      *)
(* LParen begins a grouped expression, and every other kind is an          *)
(* UnknownPrimaryToken error carrying the token's line and kind.           *)
C3_PrimaryDispatch ==
    ExpressionReturned =>
        LET token == parser_tokens[1]
            r == primary(Fresh)
        IN  CASE token.token_type \in LiteralKinds ->
                    r.ok /\ r.expr = Literal(token.literal) /\ r.self.pos = 1
              [] token.token_type = "Identifier" ->
                    r.ok /\ r.expr = [node |-> "Identifier", token |-> 1] /\ r.self.pos = 1
              [] token.token_type = "LParen" ->
                    r.ok => r.expr.node = "Grouping"
              [] OTHER ->
                    /\ ~r.ok
                    /\ r.err = [kind |-> "UnknownPrimaryToken",
                                line |-> token.line,
                                token_type |-> token.token_type]

-----------------------------------------------------------------------------
(* C4: an input with exactly one unexpected character (and no string or    *)
(* comment that could contain it) makes tokenize return an error list of   *)
(* length 1 holding UnexpectedChar, and no token sequence.                  *)
C4_OneUnexpectedCharOneError ==
    (/\ Ended
     /\ Cardinality(UnexpectedPositions) = 1
     /\ Occurrences(Quote) = {} /\ Occurrences("/") = {})
    => (result = "Err" /\ Len(errors) = 1 /\ errors[1].kind = "UnexpectedChar")

(* C5: an opening quote with no closing quote before end of input makes    *)
(* tokenize return a non-empty error list containing UnterminatedString,   *)
(* no Constant token is produced for it, and when it is the only lexical   *)
(* defect the list has exactly one entry.                                  *)
C5_UnterminatedStringReported ==
    (/\ Ended
     /\ Cardinality(Occurrences(Quote)) = 1 /\ Occurrences("/") = {})
    => /\ result = "Err"
       /\ \E i \in 1..Len(errors) : errors[i].kind = "UnterminatedString"
       /\ \A i \in 1..Len(tokens) :
             ~(tokens[i].token_type = "Constant" /\ Head(tokens[i].lexeme) = Quote)
       /\ (\A i \in UnexpectedPositions : \E q \in Occurrences(Quote) : q < i)
             => Len(errors) = 1

(* C6: tokenize is total: the scan never aborts, the offset never exceeds  *)
(* the input length, and it ends at end of input with the token sequence   *)
(* or the accumulated errors.                                              *)
C6_TokeniseTotal ==
    /\ pc # "panicked"
    /\ curr_byte <= Len(source)
    /\ pc = "done" => (curr_byte = Len(source) /\ result \in {"Ok", "Err"})

(* C7: each of the nine one-character spellings is emitted at once as one  *)
(* token of its own kind and is never reported as a lexical error.         *)
C7_SingleCharTokens ==
    [][(Scanning /\ at(curr_byte) \in DOMAIN SingleCharKind)
       => /\ tokens' = Append(tokens, [token_type |-> SingleCharKind[at(curr_byte)],
                                       lexeme |-> <<at(curr_byte)>>,
                                       literal |-> <<>>,
                                       line |-> line])
          /\ errors' = errors
          /\ curr_byte' = curr_byte + 1]_vars

(* C8: '!', '=', '>' or '<' directly followed by '=' yields exactly one    *)
(* two-character token with the '=' consumed; otherwise (end of input      *)
(* included) the one-character kind, with nothing further consumed.        *)
C8_TwoCharOperators ==
    [][(Scanning /\ at(curr_byte) \in DOMAIN OneCharKind)
       => LET c == at(curr_byte)
              followed == at(curr_byte + 1) = "="
          IN  /\ tokens' = Append(tokens,
                      [token_type |-> IF followed THEN TwoCharKind[c] ELSE OneCharKind[c],
                       lexeme |-> IF followed THEN <<c, "=">> ELSE <<c>>,
                       literal |-> <<>>,
                       line |-> line])
              /\ curr_byte' = curr_byte + (IF followed THEN 2 ELSE 1)
              /\ errors' = errors
              /\ pc' = "scan"]_vars

\* "<=!" lexes to LessEqual, Bang, EOF: both branches of the lookahead.
C8_Witness ==
    /\ source = <<"<", "=", "!">>
    /\ pc = "done" /\ result = "Ok"
    /\ TokenTypes = <<"LessEqual", "Bang", "EOF">>

\* The end of the maximal run of alphanumeric/'_' characters from offset p.
RECURSIVE RunEnd(_)
RunEnd(p) ==
    IF p < Len(source) /\ is_alphanumeric(source[p + 1]) THEN RunEnd(p + 1) ELSE p

(* C9: a maximal run of alphanumeric/'_' characters that starts with a     *)
(* letter or '_' becomes exactly one token whose literal is the run and    *)
(* whose kind is the keyword kind for the ten reserved words and           *)
(* Identifier for any other text.                                          *)
C9_KeywordOrIdentifier ==
    [][(Scanning /\ is_alpha(at(curr_byte)))
       => LET text == Slice(curr_byte, RunEnd(curr_byte))
          IN  /\ tokens' = Append(tokens,
                      [token_type |-> IF text \in DOMAIN ReservedWords
                                      THEN ReservedWords[text] ELSE "Identifier",
                       lexeme |-> text,
                       literal |-> text,
                       line |-> line])
              /\ curr_byte' = RunEnd(curr_byte)
              /\ errors' = errors]_vars

\* The offset of the first unescaped quote at or after p; Len(source) if none.
RECURSIVE UnescapedQuote(_)
UnescapedQuote(p) ==
    IF p >= Len(source) THEN Len(source)
    ELSE IF source[p + 1] = Backslash THEN UnescapedQuote(p + 2)
    ELSE IF source[p + 1] = Quote THEN p
    ELSE UnescapedQuote(p + 1)

NewlinesIn(a, b) == Cardinality({ i \in (a + 1)..b : source[i] = Newline })

(* C10: a string literal is closed only by an unescaped quote: a           *)
(* terminated literal yields exactly one Constant token whose literal is   *)
(* the text strictly between the opening and that closing quote, the line  *)
(* counter advanced once per newline in the body; with no unescaped quote  *)
(* left, no Constant token is produced.                                    *)
C10_StringClosedByUnescapedQuote ==
    [][(Scanning /\ at(curr_byte) = Quote)
       => LET close == UnescapedQuote(curr_byte + 1)
          IN  IF close < Len(source)
              THEN /\ line' = line + NewlinesIn(curr_byte + 1, close)
                   /\ tokens' = Append(tokens,
                           [token_type |-> "Constant",
                            lexeme |-> Slice(curr_byte, close + 1),
                            literal |-> Slice(curr_byte + 1, close),
                            line |-> line'])
                   /\ curr_byte' = close + 1
                   /\ errors' = errors
              ELSE /\ tokens' = tokens
                   /\ Len(errors') = Len(errors) + 1
                   /\ errors'[Len(errors')].kind = "UnterminatedString"]_vars

-----------------------------------------------------------------------------
-----------------------------------------------------------------------------
Whitespace == {" ", "\t", "\r", Newline}

\* The offset after the line that holds offset p.
RECURSIVE LineEnd(_)
LineEnd(p) ==
    IF p >= Len(source) \/ source[p + 1] = Newline THEN p ELSE LineEnd(p + 1)

\* From offset p on, the source holds whitespace and line comments only.
RECURSIVE Blank(_)
Blank(p) ==
    IF p >= Len(source) THEN TRUE
    ELSE IF source[p + 1] \in Whitespace THEN Blank(p + 1)
    ELSE IF source[p + 1] = "/" /\ p + 1 < Len(source) /\ source[p + 2] = "/"
         THEN Blank(LineEnd(p + 2))
    ELSE FALSE

(* C12: for an input of whitespace (space, tab, carriage return, newline)  *)
(* and line comments only, the empty input included, tokenize succeeds     *)
(* and returns exactly one token, of kind EOF, with empty lexeme and       *)
(* literal.                                                                *)
C12_BlankInputOnlyEOF ==
    Blank(0) =>
        /\ pc # "panicked"
        /\ errors = <<>>
        /\ pc = "scan" => tokens = <<>>
        /\ pc = "done" =>
              /\ result = "Ok"
              /\ Len(tokens) = 1
              /\ tokens[1].token_type = "EOF"
              /\ tokens[1].lexeme = <<>>
              /\ tokens[1].literal = <<>>

\* A comment, then whitespace after its line, has been lexed.
C12_Witness ==
    /\ Blank(0)
    /\ Occurrences("/") # {}
    /\ \E n \in Occurrences(Newline) : n = Len(source)
    /\ pc = "done"

-----------------------------------------------------------------------------
\* The candidate sets the expression parser hands to matches.
OperatorSets ==
    { {"BangEqual", "EqualEqual"},
      {"Greater", "GreaterEqual", "Less", "LessEqual"},
      {"Minus", "Plus"},
      {"Slash", "Star"},
      {"Bang", "Minus"} }

\* The states of a Parser: no token taken, or previous is the last one taken.
ParserStates ==
    { [pos |-> i, previous |-> i] : i \in 0..Len(parser_tokens) }

\* Every operator a node of the tree refers to is an operator token.
RECURSIVE OperatorsTaken(_)
OperatorsTaken(e) ==
    CASE e.node = "Binary" ->
            /\ e.operator \in 1..Len(parser_tokens)
            /\ OperatorOf(e) \in BinaryOps
            /\ OperatorsTaken(e.left) /\ OperatorsTaken(e.right)
      [] e.node = "Unary" ->
            /\ e.operator \in 1..Len(parser_tokens)
            /\ OperatorOf(e) \in PrefixOps
            /\ OperatorsTaken(e.right)
      [] e.node = "Grouping" -> OperatorsTaken(e.expr)
      [] OTHER -> TRUE

(* C13: NoPreviousToken is unreachable: for every token sequence, after a  *)
(* successful matches() the previous token is set and is exactly the       *)
(* operator token just consumed, so every operator of a returned tree is   *)
(* the operator token taken, and expression parsing never returns          *)
(* NoPreviousToken.                                                        *)
C13_NoPreviousTokenUnreachable ==
    ExpressionReturned =>
        /\ \A p \in ParserStates, types \in OperatorSets :
              LET m == parser_matches(p, types)
              IN  m.hit => /\ previous(m.self).ok
                           /\ previous(m.self).token = p.pos + 1
                           /\ parser_tokens[p.pos + 1].token_type \in types
        /\ parsed.value.ok => OperatorsTaken(parsed.value.expr)
        /\ ~parsed.value.ok => parsed.value.err.kind # "NoPreviousToken"

\* A prefix operator and a binary operator were matched and looked up.
C13_Witness ==
    /\ ExpressionReturned
    /\ parsed.value.ok
    /\ parsed.value.expr.node = "Binary"
    /\ parsed.value.expr.left.node = "Unary"

====
